---- MODULE Spec2Model ----
(***************************************************************************)
(* Model of knowledge-agent/agent.py: the three provider adapters          *)
(* (GeminiLLM, GladiaSTT, MinimaxTTS), the HistoryAgent that binds them to *)
(* the host session runtime, and the entrypoint.                           *)
(*                                                                         *)
(* Python values are tagged records.  Python text (a str) is the sequence  *)
(* of its code points and a bytes value the sequence of its bytes; a dict  *)
(* is the sequence of its (key, value) pairs in insertion order.  The      *)
(* outcome of a call is either a returned value or a raised exception      *)
(* carrying the text of str(e).                                            *)
(***************************************************************************)
EXTENDS Integers, Sequences, FiniteSets, TLC

VARIABLES
    cm,         \* one evaluation of GeminiLLM._convert_messages
    stt,        \* one GladiaSTT.recognize call
    tts,        \* one MinimaxTTS.synthesize call
    environ,    \* os.environ restricted to the three credentials
    metadata,   \* ctx.room.metadata
    epc,        \* position of entrypoint()
    context,    \* entrypoint's local variable `context`
    agent,      \* the HistoryAgent instance, once constructed
    adapters,   \* every adapter object constructed so far
    chat,       \* GeminiLLM.chat
    created,    \* call numbers of the chat_completion calls that ran start_chat
    calls,      \* number of chat_completion calls begun
    faults,     \* number of chat_completion calls that hit an exception
    sendLog,    \* handle used by each send_message call, in call order
    tasks,      \* host invocations of _custom_llm and of the two tools
    said,       \* utterances passed to session.say
    entered     \* number of on_enter invocations

vars == <<cm, stt, tts, environ, metadata, epc, context, agent, adapters,
          chat, created, calls, faults, sendLog, tasks, said, entered>>

agentVars == <<environ, metadata, epc, context, agent, adapters,
               chat, created, calls, faults, sendLog, tasks, said, entered>>

(***************************************************************************)
(* Bounds of the model.                                                    *)
(***************************************************************************)
MaxMsgs == 2
MaxTasks == 2
MaxCalls == 3
MaxEnter == 2

(***************************************************************************)
(* Text.  T("...") is the text a Python literal denotes; the literals of   *)
(* the source hold only the characters of codes 32..126 and the escapes    *)
(* \t, \n, \f and \r.                                                      *)
(***************************************************************************)
\* the characters of codes 32..95 and of codes 97..126, in code order
Ascii32 ==
    " !\"#$%&'()*+,-./0123456789:;<=>?@ABCDEFGHIJKLMNOPQRSTUVWXYZ[\\]^_"
Ascii97 == "abcdefghijklmnopqrstuvwxyz{|}~"

CharOf(n) ==
    CASE n = 9 -> "\t"
      [] n = 10 -> "\n"
      [] n = 12 -> "\f"
      [] n = 13 -> "\r"
      [] n >= 32 /\ n <= 95 -> SubSeq(Ascii32, n - 31, n - 31)
      [] n >= 97 /\ n <= 126 -> SubSeq(Ascii97, n - 96, n - 96)

Written == {9, 10, 12, 13} \cup (32..95) \cup (97..126)

\* ord(c)
Ord == [c \in {CharOf(n) : n \in Written} |-> CHOOSE n \in Written : CharOf(n) = c]

T(s) == [i \in 1..Len(s) |-> Ord[SubSeq(s, i, i)]]

(***************************************************************************)
(* Python values and call outcomes.                                        *)
(***************************************************************************)
NoneV == [t |-> "None"]
Str(s) == [t |-> "str", s |-> s]
PyInt(n) == [t |-> "int", n |-> n]
List(l) == [t |-> "list", l |-> l]
Dict(d) == [t |-> "dict", d |-> d]
Bytes(b) == [t |-> "bytes", b |-> b]

\* the str value of a literal
Text(s) == Str(T(s))

Ok(v) == [k |-> "return", v |-> v]
Raise(e) == [k |-> "raise", e |-> e]

\* bool(v)
Truthy(v) ==
    CASE v.t = "None" -> FALSE
      [] v.t = "str" -> v.s # <<>>
      [] v.t = "int" -> v.n # 0
      [] v.t = "list" -> v.l # <<>>
      [] v.t = "dict" -> v.d # <<>>
      [] v.t = "bytes" -> v.b # <<>>
      [] OTHER -> TRUE

\* type(v).__name__
TypeName(v) == IF v.t = "None" THEN T("NoneType") ELSE T(v.t)

\* sep.join(parts)
RECURSIVE Join(_, _)
Join(parts, sep) ==
    IF parts = <<>> THEN <<>>
    ELSE IF Len(parts) = 1 THEN parts[1]
    ELSE parts[1] \o sep \o Join(Tail(parts), sep)

\* list(d), d in d: the keys of a dict in insertion order; d[key]
KeysOf(d) == [i \in 1..Len(d) |-> d[i][1]]
HasKey(d, key) == \E i \in 1..Len(d) : d[i][1] = key
ValueAt(d, key) == d[CHOOSE i \in 1..Len(d) : d[i][1] = key][2]

HexDigits == "0123456789abcdef"

\* the escape \xNN of a code below 256
HexEscape(n) ==
    T("\\x" \o SubSeq(HexDigits, (n \div 16) + 1, (n \div 16) + 1)
            \o SubSeq(HexDigits, (n % 16) + 1, (n % 16) + 1))

\* repr quotes with ' unless the text holds a ' and no "
StrQuote(s) ==
    IF (\E i \in 1..Len(s) : s[i] = 39) /\ ~(\E i \in 1..Len(s) : s[i] = 34)
    THEN 34 ELSE 39

\* str.isprintable() of a character of code below 256
Printable(c) ==
    \/ c >= 32 /\ c <= 126
    \/ c >= 161 /\ c <= 255 /\ c # 173

\* one character of repr(s), inside the quote q, for the code points below
\* 256
CharRepr(c, q) ==
    CASE c = 92 -> T("\\\\")
      [] c = 10 -> T("\\n")
      [] c = 9 -> T("\\t")
      [] c = 13 -> T("\\r")
      [] c = q -> <<92, c>>
      [] c \notin {92, 10, 9, 13, q} /\ c >= 0 /\ c <= 255 /\ ~Printable(c) ->
            HexEscape(c)
      [] c \notin {92, q} /\ Printable(c) -> <<c>>

\* repr(s) of a str
StrRepr(s) ==
    LET q == StrQuote(s)
    IN <<q>> \o Join([i \in 1..Len(s) |-> CharRepr(s[i], q)], <<>>) \o <<q>>

BytesQuote(b) ==
    IF (\E i \in 1..Len(b) : b[i] = 39) /\ ~(\E i \in 1..Len(b) : b[i] = 34)
    THEN 34 ELSE 39

\* one byte of repr(b), inside the quote q
ByteRepr(n, q) ==
    CASE n = 92 -> T("\\\\")
      [] n = 10 -> T("\\n")
      [] n = 9 -> T("\\t")
      [] n = 13 -> T("\\r")
      [] n = q -> <<92, n>>
      [] n \notin {92, q} /\ n >= 32 /\ n <= 126 -> <<n>>
      [] n \notin {10, 9, 13} /\ (n < 32 \/ n > 126) -> HexEscape(n)

\* repr(b) of a bytes value
BytesRepr(b) ==
    LET q == BytesQuote(b)
    IN T("b") \o <<q>> \o Join([i \in 1..Len(b) |-> ByteRepr(b[i], q)], <<>>) \o <<q>>

\* repr(v)
RECURSIVE PyRepr(_)
PyRepr(v) ==
    CASE v.t = "None" -> T("None")
      [] v.t = "str" -> StrRepr(v.s)
      [] v.t = "int" -> T(ToString(v.n))
      [] v.t = "bytes" -> BytesRepr(v.b)
      [] v.t = "list" ->
            T("[") \o Join([i \in 1..Len(v.l) |-> PyRepr(v.l[i])], T(", ")) \o T("]")
      [] v.t = "dict" ->
            T("{") \o Join([i \in 1..Len(v.d) |->
                              PyRepr(v.d[i][1]) \o T(": ") \o PyRepr(v.d[i][2])],
                           T(", ")) \o T("}")

\* str(v), as an f-string renders it: the text itself, else the repr
PyFormat(v) == IF v.t = "str" THEN v.s ELSE PyRepr(v)

\* iter(v), as `for msg in v` walks it: the items, or the TypeError
PyIter(v) ==
    CASE v.t = "list" -> Ok(v.l)
      [] v.t = "str" -> Ok([i \in 1..Len(v.s) |-> Str(<<v.s[i]>>)])
      [] v.t = "bytes" -> Ok([i \in 1..Len(v.b) |-> PyInt(v.b[i])])
      [] v.t = "dict" -> Ok(KeysOf(v.d))
      [] OTHER -> Raise(T("'") \o TypeName(v) \o T("' object is not iterable"))

\* v.get(key, default): only a dict has the method
PyGet(v, key, default) ==
    IF v.t = "dict"
    THEN Ok(IF HasKey(v.d, key) THEN ValueAt(v.d, key) ELSE default)
    ELSE Raise(T("'") \o TypeName(v) \o T("' object has no attribute 'get'"))

(***************************************************************************)
(* GeminiLLM._convert_messages                                             *)
(***************************************************************************)
\* the body of the loop for one msg: the parts it appends, or the exception
RenderMislabelled(msg) ==
    LET role == PyGet(msg, Text("role"), Text("user"))
        content == PyGet(msg, Text("content"), Text(""))
    IN IF role.k = "raise" THEN role
       ELSE IF role.v = Text("system")
            THEN Ok(<<T("System: ") \o PyFormat(content.v)>>)
       ELSE IF role.v = Text("user")
            THEN Ok(<<T("User: ") \o PyFormat(content.v)>>)
       ELSE IF role.v = Text("assistant")
            THEN Ok(<<T("User: ") \o PyFormat(content.v)>>)
       ELSE Ok(<<>>)

Render(msg) ==
    LET role == PyGet(msg, Text("role"), Text("user"))
        content == PyGet(msg, Text("content"), Text(""))
    IN IF role.k = "raise" THEN role
       ELSE IF role.v = Text("system")
            THEN Ok(<<T("System: ") \o PyFormat(content.v)>>)
       ELSE IF role.v = Text("user")
            THEN Ok(<<T("User: ") \o PyFormat(content.v)>>)
       ELSE IF role.v = Text("assistant")
            THEN Ok(<<T("Assistant: ") \o PyFormat(content.v)>>)
       ELSE Ok(<<>>)

\* the for loop over the items, accumulating prompt_parts
RECURSIVE PromptParts(_, _)
PromptParts(items, acc) ==
    IF items = <<>> THEN Ok(acc)
    ELSE LET r == Render(Head(items))
         IN IF r.k = "raise" THEN r
            ELSE PromptParts(Tail(items), acc \o r.v)

_convert_messages(messages) ==
    IF PyIter(messages).k = "raise"
    THEN PyIter(messages)
    ELSE LET parts == PromptParts(PyIter(messages).v, <<>>)
         IN IF parts.k = "raise" THEN parts
            ELSE Ok(Join(parts.v, T("\n")))

(***************************************************************************)
(* Messages fed to _convert_messages: dicts with an optional role and an   *)
(* optional content.                                                       *)
(***************************************************************************)
Roles == {"system", "user", "assistant", "tool"}
Contents == {"hi", "a\nb"}

Messages ==
    {Dict(<<<<Text("role"), Text(r)>>, <<Text("content"), Text(c)>>>>) :
        r \in Roles, c \in Contents}
    \cup {Dict(<<<<Text("content"), Text(c)>>, <<Text("role"), Text("assistant")>>>>) :
        c \in Contents}
    \cup {Dict(<<<<Text("role"), Text(r)>>>>) : r \in Roles}
    \cup {Dict(<<<<Text("content"), Text(c)>>>>) : c \in Contents}
    \cup {Dict(<<>>)}

RECURSIVE SeqsUpTo(_, _)
SeqsUpTo(S, n) ==
    IF n = 0 THEN {<<>>}
    ELSE LET shorter == SeqsUpTo(S, n - 1)
         IN shorter \cup {Append(s, x) : s \in {q \in shorter : Len(q) = n - 1}, x \in S}

CmIdle == [pc |-> "idle"]
SttIdle == [pc |-> "idle"]
TtsIdle == [pc |-> "idle"]

AgentIdle ==
    /\ environ = <<>>
    /\ metadata = NoneV
    /\ epc = "off"
    /\ context = NoneV
    /\ agent = NoneV
    /\ adapters = {}
    /\ chat = NoneV
    /\ created = <<>>
    /\ calls = 0
    /\ faults = 0
    /\ sendLog = <<>>
    /\ tasks = <<>>
    /\ said = <<>>
    /\ entered = 0

InitConvert ==
    /\ cm \in {[pc |-> "ready", messages |-> List(l)] : l \in SeqsUpTo(Messages, MaxMsgs)}
    /\ stt = SttIdle
    /\ tts = TtsIdle
    /\ AgentIdle

Convert ==
    /\ cm.pc = "ready"
    /\ cm' = [pc |-> "done", messages |-> cm.messages,
              result |-> _convert_messages(cm.messages)]
    /\ UNCHANGED <<stt, tts, agentVars>>

NextConvert == Convert

SpecConvert == InitConvert /\ [][NextConvert]_vars

(***************************************************************************)
(* Reading a prompt back: its lines, and what the data model says a        *)
(* message should look like in it.                                         *)
(***************************************************************************)
NewlinesIn(s) == {i \in 1..Len(s) : s[i] = 10}

SetMin(S) == CHOOSE x \in S : \A y \in S : x <= y

\* the lines of a text; the empty text has none
RECURSIVE SplitAtNewlines(_)
SplitAtNewlines(s) ==
    IF NewlinesIn(s) = {} THEN <<s>>
    ELSE LET i == SetMin(NewlinesIn(s))
         IN <<SubSeq(s, 1, i - 1)>> \o SplitAtNewlines(SubSeq(s, i + 1, Len(s)))

PromptLines(s) == IF s = <<>> THEN <<>> ELSE SplitAtNewlines(s)

RoleOf(msg) ==
    IF HasKey(msg.d, Text("role")) THEN ValueAt(msg.d, Text("role")).s ELSE T("user")
ContentOf(msg) ==
    IF HasKey(msg.d, Text("content")) THEN ValueAt(msg.d, Text("content")).s ELSE <<>>
KnownRole(msg) == RoleOf(msg) \in {T("system"), T("user"), T("assistant")}

Capitalized(role) ==
    CASE role = T("system") -> T("System")
      [] role = T("user") -> T("User")
      [] role = T("assistant") -> T("Assistant")
      [] OTHER -> T("?")

Entry(msg) == Capitalized(RoleOf(msg)) \o T(": ") \o ContentOf(msg)

RECURSIVE SumOver(_, _)
SumOver(f, n) == IF n = 0 THEN 0 ELSE f[n] + SumOver(f, n - 1)

\* C5 as stated: every message of the sequence is rendered as exactly one
\* line "<Label>: <content>", Label being System, User or Assistant according
\* to its role, so that the prompt has as many lines as there are messages and
\* line i is message i.
C5_EveryMessageOneLine ==
    cm.pc = "done" =>
        /\ cm.result.k = "return"
        /\ LET msgs == cm.messages.l
               lines == PromptLines(cm.result.v)
           IN /\ Len(lines) = Len(msgs)
              /\ \A i \in 1..Len(msgs) :
                    /\ KnownRole(msgs[i])
                    /\ lines[i] = Entry(msgs[i])

\* C5 amended: the prompt is, in message order, one entry "<Label>: <content>"
\* per message whose role is system, user or assistant (no role counts as
\* user), the entries joined by newlines; messages of any other role are left
\* out; the prompt has one line per entry plus one per line break inside a
\* content, so line i is entry i whenever no content has a line break.
C5_KnownRolesRenderedInOrder ==
    cm.pc = "done" =>
        /\ cm.result.k = "return"
        /\ LET known == SelectSeq(cm.messages.l, KnownRole)
               lines == PromptLines(cm.result.v)
               breaks == [i \in 1..Len(known) |->
                            Cardinality(NewlinesIn(ContentOf(known[i])))]
           IN /\ cm.result.v = Join([i \in 1..Len(known) |-> Entry(known[i])], T("\n"))
              /\ Len(lines) = Len(known) + SumOver(breaks, Len(known))
              /\ (\A i \in 1..Len(known) : breaks[i] = 0) =>
                    \A i \in 1..Len(known) : lines[i] = Entry(known[i])

\* a two-message input with a dropped role and a content that spans two lines
C5_Witness ==
    /\ cm.pc = "done"
    /\ Len(cm.messages.l) = 2
    /\ ~KnownRole(cm.messages.l[1])
    /\ KnownRole(cm.messages.l[2])
    /\ RoleOf(cm.messages.l[2]) = T("assistant")
    /\ NewlinesIn(ContentOf(cm.messages.l[2])) # {}
    /\ Len(PromptLines(cm.result.v)) = 2
(***************************************************************************)
(* json.loads / aiohttp's response.json() on the documents the model uses. *)
(***************************************************************************)
JsonDocs ==
    { T(""), T("not json"), T("null"), T("5"), T("\"hi\""), T("[1]"), T("{}"),
      T("{\"context\": \"Rome\"}"), T("{\"context\": \"\"}"), T("{\"context\": null}"),
      T("{\"text\": \"hello\"}"),
      T("{\"transcription\": {\"full_transcript\": \"hello\"}}"),
      T("{\"transcription\": {\"full_transcript\": \"\"}}"),
      T("{\"transcription\": {\"full_transcript\": null}}"),
      T("{\"transcription\": {\"full_transcript\": 5}}"),
      T("{\"transcription\": {}}"),
      T("{\"transcription\": null}"),
      T("{\"transcription\": \"hello\"}") }

JsonLoads(text) ==
    CASE text = T("null") -> Ok(NoneV)
      [] text = T("5") -> Ok(PyInt(5))
      [] text = T("\"hi\"") -> Ok(Text("hi"))
      [] text = T("[1]") -> Ok(List(<<PyInt(1)>>))
      [] text = T("{}") -> Ok(Dict(<<>>))
      [] text = T("{\"context\": \"Rome\"}") ->
            Ok(Dict(<<<<Text("context"), Text("Rome")>>>>))
      [] text = T("{\"context\": \"\"}") -> Ok(Dict(<<<<Text("context"), Text("")>>>>))
      [] text = T("{\"context\": null}") -> Ok(Dict(<<<<Text("context"), NoneV>>>>))
      [] text = T("{\"text\": \"hello\"}") -> Ok(Dict(<<<<Text("text"), Text("hello")>>>>))
      [] text = T("{\"text\": \"hello\", \"context\": \"Rome\"}") ->
            Ok(Dict(<<<<Text("text"), Text("hello")>>, <<Text("context"), Text("Rome")>>>>))
      [] text = T("{\"context\": {\"place\": \"Rome\"}}") ->
            Ok(Dict(<<<<Text("context"), Dict(<<<<Text("place"), Text("Rome")>>>>)>>>>))
      [] text = T("{\"transcription\": {\"full_transcript\": \"hello\"}}") ->
            Ok(Dict(<<<<Text("transcription"),
                       Dict(<<<<Text("full_transcript"), Text("hello")>>>>)>>>>))
      [] text = T("{\"transcription\": {\"full_transcript\": \"\"}}") ->
            Ok(Dict(<<<<Text("transcription"),
                       Dict(<<<<Text("full_transcript"), Text("")>>>>)>>>>))
      [] text = T("{\"transcription\": {\"full_transcript\": null}}") ->
            Ok(Dict(<<<<Text("transcription"),
                       Dict(<<<<Text("full_transcript"), NoneV>>>>)>>>>))
      [] text = T("{\"transcription\": {\"full_transcript\": 5}}") ->
            Ok(Dict(<<<<Text("transcription"),
                       Dict(<<<<Text("full_transcript"), PyInt(5)>>>>)>>>>))
      [] text = T("{\"transcription\": {}}") ->
            Ok(Dict(<<<<Text("transcription"), Dict(<<>>)>>>>))
      [] text = T("{\"transcription\": null}") ->
            Ok(Dict(<<<<Text("transcription"), NoneV>>>>))
      [] text = T("{\"transcription\": \"hello\"}") ->
            Ok(Dict(<<<<Text("transcription"), Text("hello")>>>>))
      [] OTHER -> Raise(T("Expecting value: line 1 column 1 (char 0)"))

(***************************************************************************)
(* What the network does to one HTTP POST: the connection fails, or a      *)
(* response with a status arrives whose body can be read or not.           *)
(***************************************************************************)
TransportErrors == {T("Cannot connect to host"), T("Server disconnected")}
Statuses == {200, 201, 401, 500}

\* no POST was made
Unsent == [k |-> "unsent"]

\* the body of a response of a status the code does not read the body of
Unread == [k |-> "unread"]

\* len(x), as the request log lines evaluate it
PyLen(x) ==
    CASE x.t = "bytes" -> Ok(Len(x.b))
      [] x.t = "str" -> Ok(Len(x.s))
      [] x.t = "list" -> Ok(Len(x.l))
      [] x.t = "dict" -> Ok(Len(x.d))
      [] OTHER -> Raise(T("object of type '") \o TypeName(x) \o T("' has no len()"))

Shorter(n, m) == IF n < m THEN n ELSE m

\* x[:n]
PySlice(x, n) ==
    CASE x.t = "str" -> Ok(Str(SubSeq(x.s, 1, Shorter(n, Len(x.s)))))
      [] x.t = "bytes" -> Ok(Bytes(SubSeq(x.b, 1, Shorter(n, Len(x.b)))))
      [] x.t = "list" -> Ok(List(SubSeq(x.l, 1, Shorter(n, Len(x.l)))))
      [] x.t = "dict" -> Raise(T("unhashable type: 'slice'"))
      [] OTHER -> Raise(T("'") \o TypeName(x) \o T("' object is not subscriptable"))

(***************************************************************************)
(* GladiaSTT.recognize                                                     *)
(***************************************************************************)
\* if response.status == 200
SttStatusOk(status) == status = 200

\* result.get('transcription', {}).get('full_transcript', '')
ExtractTranscript(result) ==
    LET transcription == PyGet(result, Text("transcription"), Dict(<<>>))
    IN IF transcription.k = "raise" THEN transcription
       ELSE PyGet(transcription.v, Text("full_transcript"), Text(""))

\* the body of `async with session.post(...) as response`
RecognizeResponse(response) ==
    IF SttStatusOk(response.status)
    THEN LET result == IF response.body.k = "raise" THEN response.body
                       ELSE JsonLoads(response.body.v)
         IN IF result.k = "raise" THEN result ELSE ExtractTranscript(result.v)
    ELSE Ok(Text(""))

\* except Exception as e: ... return ""
RecognizeExcept(outcome) == IF outcome.k = "raise" THEN Ok(Text("")) ELSE outcome

\* recognize, given what the network answers to the POST and to the read of
\* the body
recognize(audio_data, net) ==
    LET body == IF PyLen(audio_data).k = "raise" THEN PyLen(audio_data)
                ELSE IF net.k = "raise" THEN net
                ELSE RecognizeResponse(net.v)
    IN RecognizeExcept(body)

SttAudio == {Bytes(<<82, 73, 70, 70>>), Bytes(<<>>), NoneV}

\* what `await response.json()` comes to before the JSON is decoded
SttBodies == {Ok(b) : b \in JsonDocs} \cup {Raise(T("Response payload is not completed"))}

\* the host calls _custom_stt(audio_data): recognize runs up to the POST, or
\* ends before it when the request log line fails
SttCall ==
    /\ stt.pc = "idle"
    /\ \E a \in SttAudio :
          stt' = IF PyLen(a).k = "raise"
                 THEN [pc |-> "done", audio |-> a, net |-> Unsent,
                       outcome |-> recognize(a, Unsent)]
                 ELSE [pc |-> "posting", audio |-> a]
    /\ UNCHANGED <<cm, tts, agentVars>>

SttDone(audio, net) ==
    [pc |-> "done", audio |-> audio, net |-> net, outcome |-> recognize(audio, net)]

\* `await session.post(...)` ends: the transport failed, or a response came;
\* with status 200 recognize suspends again in `await response.json()`,
\* otherwise it returns to the host
SttAnswered ==
    /\ stt.pc = "posting"
    /\ \/ \E e \in TransportErrors : stt' = SttDone(stt.audio, Raise(e))
       \/ \E st \in Statuses :
             stt' = IF SttStatusOk(st)
                    THEN [pc |-> "reading", audio |-> stt.audio, status |-> st]
                    ELSE SttDone(stt.audio, Ok([status |-> st, body |-> Unread]))
    /\ UNCHANGED <<cm, tts, agentVars>>

\* `await response.json()` ends, and recognize returns to the host
SttBodyRead ==
    /\ stt.pc = "reading"
    /\ \E b \in SttBodies :
          stt' = SttDone(stt.audio, Ok([status |-> stt.status, body |-> b]))
    /\ UNCHANGED <<cm, tts, agentVars>>

SttNext ==
    /\ stt.pc = "done"
    /\ stt' = SttIdle
    /\ UNCHANGED <<cm, tts, agentVars>>

(***************************************************************************)
(* MinimaxTTS.synthesize                                                   *)
(***************************************************************************)
TtsStatusAny2xx(status) == status >= 200 /\ status < 300

\* if response.status == 200
TtsStatusOk(status) == status = 200

\* the body of `async with session.post(...) as response`
SynthesizeResponse(response) ==
    IF TtsStatusOk(response.status)
    THEN IF response.body.k = "raise" THEN response.body
         ELSE Ok(Bytes(response.body.v))
    ELSE Ok(Bytes(<<>>))

\* except Exception as e: ... return b""
SynthesizeExcept(outcome) == IF outcome.k = "raise" THEN Ok(Bytes(<<>>)) ELSE outcome

\* the request log line: text[:100], then len(text)
TtsRequestLog(text) ==
    IF PySlice(text, 100).k = "raise" THEN PySlice(text, 100) ELSE PyLen(text)

\* synthesize, given what the network answers to the POST and to the read of
\* the body
synthesize(text, net) ==
    LET body == IF TtsRequestLog(text).k = "raise" THEN TtsRequestLog(text)
                ELSE IF net.k = "raise" THEN net
                ELSE SynthesizeResponse(net.v)
    IN SynthesizeExcept(body)

TtsTexts == {Text("Hello"), Text(""), NoneV, List(<<Text("a")>>)}

\* what `await response.read()` comes to
TtsBodies ==
    {Ok(<<>>), Ok(<<82, 73, 70, 70>>), Raise(T("Response payload is not completed"))}

\* the host calls _custom_tts(text): synthesize runs up to the POST, or ends
\* before it when the request log line fails
TtsCall ==
    /\ tts.pc = "idle"
    /\ \E x \in TtsTexts :
          tts' = IF TtsRequestLog(x).k = "raise"
                 THEN [pc |-> "done", text |-> x, net |-> Unsent,
                       outcome |-> synthesize(x, Unsent)]
                 ELSE [pc |-> "posting", text |-> x]
    /\ UNCHANGED <<cm, stt, agentVars>>

TtsDone(text, net) ==
    [pc |-> "done", text |-> text, net |-> net, outcome |-> synthesize(text, net)]

\* `await session.post(...)` ends: the transport failed, or a response came;
\* with status 200 synthesize suspends again in `await response.read()`,
\* otherwise it returns to the host
TtsAnswered ==
    /\ tts.pc = "posting"
    /\ \/ \E e \in TransportErrors : tts' = TtsDone(tts.text, Raise(e))
       \/ \E st \in Statuses :
             tts' = IF TtsStatusOk(st)
                    THEN [pc |-> "reading", text |-> tts.text, status |-> st]
                    ELSE TtsDone(tts.text, Ok([status |-> st, body |-> Unread]))
    /\ UNCHANGED <<cm, stt, agentVars>>

\* `await response.read()` ends, and synthesize returns to the host
TtsBodyRead ==
    /\ tts.pc = "reading"
    /\ \E b \in TtsBodies :
          tts' = TtsDone(tts.text, Ok([status |-> tts.status, body |-> b]))
    /\ UNCHANGED <<cm, stt, agentVars>>

TtsNext ==
    /\ tts.pc = "done"
    /\ tts' = TtsIdle
    /\ UNCHANGED <<cm, stt, agentVars>>

InitIO ==
    /\ cm = CmIdle
    /\ stt = SttIdle
    /\ tts = TtsIdle
    /\ AgentIdle

NextIO ==
    \/ SttCall \/ SttAnswered \/ SttBodyRead \/ SttNext
    \/ TtsCall \/ TtsAnswered \/ TtsBodyRead \/ TtsNext

SpecIO == InitIO /\ [][NextIO]_vars

(***************************************************************************)
(* Properties of the two HTTP adapters.                                    *)
(***************************************************************************)
Answered(net) == net.k = "return"
Answered200(net) == Answered(net) /\ net.v.status = 200
Readable(net) == Answered(net) /\ net.v.body.k = "return"

\* the JSON value at transcription.full_transcript of a parsed body, if the
\* body is an object holding an object holding that key
HasTranscriptPath(j) ==
    /\ j.t = "dict"
    /\ HasKey(j.d, Text("transcription"))
    /\ ValueAt(j.d, Text("transcription")).t = "dict"
    /\ HasKey(ValueAt(j.d, Text("transcription")).d, Text("full_transcript"))

TranscriptField(j) ==
    ValueAt(ValueAt(j.d, Text("transcription")).d, Text("full_transcript"))

CarriesTranscriptText(net) ==
    /\ Readable(net)
    /\ JsonLoads(net.v.body.v).k = "return"
    /\ HasTranscriptPath(JsonLoads(net.v.body.v).v)
    /\ TranscriptField(JsonLoads(net.v.body.v).v).t = "str"

TranscriptText(net) == TranscriptField(JsonLoads(net.v.body.v).v).s

\* C3: recognize never raises and always returns text: the empty string when
\* the transport fails, the status is not 200 or the 200 response carries no
\* text at transcription.full_transcript, and exactly that text otherwise.
C3_RecognizeAlwaysText ==
    stt.pc = "done" =>
        /\ stt.outcome.k = "return"
        /\ stt.outcome.v.t = "str"
        /\ (Answered200(stt.net) /\ CarriesTranscriptText(stt.net)) =>
                stt.outcome.v = Str(TranscriptText(stt.net))
        /\ ~(Answered200(stt.net) /\ CarriesTranscriptText(stt.net)) =>
                stt.outcome.v = Text("")

\* C4: synthesize never raises: it returns no bytes when the transport fails
\* or the status is not 200, and exactly the body of a 200 response.
C4_SynthesizeBytesOrEmpty ==
    tts.pc = "done" =>
        /\ tts.outcome.k = "return"
        /\ tts.outcome.v.t = "bytes"
        /\ ~Answered200(tts.net) => tts.outcome.v = Bytes(<<>>)
        /\ (Answered200(tts.net) /\ Readable(tts.net)) =>
                tts.outcome.v = Bytes(tts.net.v.body.v)
        /\ (Answered200(tts.net) /\ ~Readable(tts.net)) =>
                tts.outcome.v = Bytes(<<>>)

\* a 200 response whose four body bytes came back as the audio
C4_Witness ==
    /\ tts.pc = "done"
    /\ tts.text = Text("Hello")
    /\ Answered200(tts.net)
    /\ Readable(tts.net)
    /\ tts.outcome = Ok(Bytes(<<82, 73, 70, 70>>))

(***************************************************************************)
(* HistoryAgent.__init__                                                   *)
(***************************************************************************)
CredNames == {"GEMINI_API_KEY", "GLADIA_API_KEY", "MINIMAX_API_KEY"}

\* what os.getenv can return for a credential: unset, set to nothing, set
EnvVals == {NoneV, Text(""), Text("secret")}

ConfigError == T("Missing required API keys. Check your .env file.")

base_instructions ==
    T("\n"
      \o "        You are a knowledgeable and enthusiastic history expert specializing in historical places, events, and cultural heritage.\n"
      \o "        \n"
      \o "        Your role:\n"
      \o "        - Share fascinating historical facts, stories, and insights\n"
      \o "        - Help users discover the rich history of places around the world\n"
      \o "        - Provide context about historical events, figures, and periods\n"
      \o "        - Make history engaging and accessible through vivid storytelling\n"
      \o "        - Connect past events to their modern significance\n"
      \o "        \n"
      \o "        Guidelines:\n"
      \o "        - Be passionate and engaging about historical topics\n"
      \o "        - Provide specific dates, names, and details when possible\n"
      \o "        - Use storytelling to bring historical events to life\n"
      \o "        - Encourage curiosity about history and cultural heritage\n"
      \o "        - If you don't know something specific, admit it but offer related information\n"
      \o "        - Keep responses conversational and informative\n"
      \o "        ")

\* x or y
PyOr(x, y) == IF Truthy(x) THEN x ELSE y

AnyKey(keys) == \E i \in 1..Len(keys) : Truthy(keys[i])

\* all([gemini_key, gladia_key, minimax_key])
AllKeys(keys) == \A i \in 1..Len(keys) : Truthy(keys[i])

\* the instructions handed to the host: base_instructions, plus the context
\* section `if self.context`
Instructions(self_context) ==
    IF Truthy(self_context)
    THEN base_instructions \o T("\n\nAdditional context for this conversation:\n")
            \o PyFormat(self_context)
    ELSE base_instructions

\* HistoryAgent(context=ctx) under the environment env: the exception, or the
\* new agent with the adapter objects its constructor made
HistoryAgentInit(ctx, env) ==
    LET gemini_key == env["GEMINI_API_KEY"]
        gladia_key == env["GLADIA_API_KEY"]
        minimax_key == env["MINIMAX_API_KEY"]
    IN IF ~AllKeys(<<gemini_key, gladia_key, minimax_key>>)
       THEN Raise(ConfigError)
       ELSE Ok([gemini_llm |-> [cls |-> "GeminiLLM", api_key |-> gemini_key],
                gladia_stt |-> [cls |-> "GladiaSTT", api_key |-> gladia_key],
                minimax_tts |-> [cls |-> "MinimaxTTS", api_key |-> minimax_key],
                context |-> PyOr(ctx, Text("")),
                instructions |-> Instructions(PyOr(ctx, Text("")))])

(***************************************************************************)
(* HistoryAgent.on_enter                                                   *)
(***************************************************************************)
ContextGreeting(self_context) ==
    T("Hello! I'm your history guide. I have some context about ")
    \o PyFormat(self_context)
    \o T(". What would you like to explore about history today?")

GenericGreeting ==
    T("Hello! I'm your personal history expert. I love sharing fascinating stories about historical places, events, and cultures. What historical topic interests you?")

GreetingIfNotNone(self_context) ==
    IF self_context # NoneV THEN ContextGreeting(self_context) ELSE GenericGreeting

\* the text on_enter passes to session.say
Greeting(self_context) ==
    IF Truthy(self_context) THEN ContextGreeting(self_context) ELSE GenericGreeting

(***************************************************************************)
(* entrypoint                                                              *)
(***************************************************************************)
NoAttr == [t |-> "noattr"]

MetaDocs ==
    { T(""), T("not json"), T("null"), T("5"), T("[1]"), T("{}"),
      T("{\"text\": \"hello\"}"), T("{\"text\": \"hello\", \"context\": \"Rome\"}"),
      T("{\"context\": \"Rome\"}"), T("{\"context\": \"\"}"), T("{\"context\": null}"),
      T("{\"context\": {\"place\": \"Rome\"}}") }

\* ctx.room.metadata: no such attribute, None, or a text
RoomMetadata == {NoAttr, NoneV} \cup {Str(d) : d \in MetaDocs}

\* json.loads(md) then metadata.get('context'), with no handler around them
ContextFromJson(md) ==
    LET parsed == JsonLoads(md.s)
    IN IF parsed.k = "raise" THEN parsed
       ELSE PyGet(parsed.v, Text("context"), NoneV)

\* a handler that lets everything but the JSON decoding error through
ExtractContextOnlyDecodeErrors(md) ==
    IF md = NoAttr \/ ~Truthy(md) THEN Ok(NoneV)
    ELSE IF JsonLoads(md.s).k = "raise" THEN Ok(NoneV)
    ELSE ContextFromJson(md)

\* lines 341-348: context = None, then the guarded parse under a bare except
ExtractContext(md) ==
    IF md = NoAttr \/ ~Truthy(md) THEN Ok(NoneV)
    ELSE IF ContextFromJson(md).k = "raise" THEN Ok(NoneV)
    ELSE ContextFromJson(md)

ConnectErrors == {T("could not connect to the room")}

EntryPc(pc, error) == [pc |-> pc, error |-> error]

InitEntry ==
    /\ cm = CmIdle
    /\ stt = SttIdle
    /\ tts = TtsIdle
    /\ environ \in [CredNames -> EnvVals]
    /\ metadata \in RoomMetadata
    /\ epc = EntryPc("start", <<>>)
    /\ context = NoneV
    /\ agent = NoneV
    /\ adapters = {}
    /\ chat = NoneV
    /\ created = <<>>
    /\ calls = 0
    /\ faults = 0
    /\ sendLog = <<>>
    /\ tasks = <<>>
    /\ said = <<>>
    /\ entered = 0

\* await ctx.connect(auto_subscribe=True)
Connect ==
    /\ epc.pc = "start"
    /\ \/ epc' = EntryPc("connected", <<>>)
       \/ \E e \in ConnectErrors : epc' = EntryPc("raised", e)
    /\ UNCHANGED <<cm, stt, tts, environ, metadata, context, agent, adapters,
                   chat, created, calls, faults, sendLog, tasks, said, entered>>

\* the rest of entrypoint up to `await session.start(...)`: read the context
\* out of the room metadata, construct the agent, hand it to the session
EntryRun ==
    /\ epc.pc = "connected"
    /\ LET extracted == ExtractContext(metadata)
           built == HistoryAgentInit(extracted.v, environ)
       IN IF extracted.k = "raise"
          THEN /\ epc' = EntryPc("raised", extracted.e)
               /\ UNCHANGED <<context, agent, adapters>>
          ELSE /\ context' = extracted.v
               /\ IF built.k = "raise"
                  THEN /\ epc' = EntryPc("raised", built.e)
                       /\ UNCHANGED <<agent, adapters>>
                  ELSE /\ epc' = EntryPc("running", <<>>)
                       /\ agent' = built.v
                       /\ adapters' = adapters \cup {built.v.gemini_llm,
                                        built.v.gladia_stt, built.v.minimax_tts}
    /\ UNCHANGED <<cm, stt, tts, environ, metadata,
                   chat, created, calls, faults, sendLog, tasks, said, entered>>

\* the host runs the on-session-start hook
OnEnter ==
    /\ epc.pc = "running"
    /\ entered < MaxEnter
    /\ entered' = entered + 1
    /\ said' = Append(said, [text |-> Greeting(agent.context),
                             allow_interruptions |-> TRUE])
    /\ UNCHANGED <<cm, stt, tts, environ, metadata, epc, context, agent, adapters,
                   chat, created, calls, faults, sendLog, tasks>>

Next == Connect \/ EntryRun \/ OnEnter

Spec == InitEntry /\ [][Next]_vars

(***************************************************************************)
(* Properties of startup and of the greeting.                              *)
(***************************************************************************)
\* a credential is missing when it is unset or set to nothing
Missing(v) == v = NoneV \/ v = Text("")
AnyMissing == \E c \in CredNames : Missing(environ[c])

\* entrypoint has run the constructor
Constructing == epc.pc = "running" \/ (epc.pc = "raised" /\ epc.error \notin ConnectErrors)

\* C2: construction fails with the configuration error, and makes no adapter,
\* whenever at least one of the three credentials is missing; with all three
\* present it succeeds and the agent owns one adapter of each kind.
C2_ConstructionNeedsAllCredentials ==
    Constructing =>
        /\ AnyMissing =>
              /\ epc = EntryPc("raised", ConfigError)
              /\ agent = NoneV
              /\ adapters = {}
        /\ ~AnyMissing =>
              /\ epc.pc = "running"
              /\ agent # NoneV
              /\ agent.gemini_llm.cls = "GeminiLLM"
              /\ agent.gladia_stt.cls = "GladiaSTT"
              /\ agent.minimax_tts.cls = "MinimaxTTS"
              /\ adapters = {agent.gemini_llm, agent.gladia_stt, agent.minimax_tts}
              /\ Cardinality(adapters) = 3

\* construction refused with exactly one credential absent and two present
C2_Witness ==
    /\ epc = EntryPc("raised", ConfigError)
    /\ environ["GEMINI_API_KEY"] = Text("secret")
    /\ environ["GLADIA_API_KEY"] = NoneV
    /\ environ["MINIMAX_API_KEY"] = Text("secret")
    /\ adapters = {}

\* a PersonaContext was supplied and is not empty
SuppliedContext == Truthy(context)

ContextText == IF context = NoneV THEN <<>> ELSE PyFormat(context)

ContextSection == T("\n\nAdditional context for this conversation:\n")

EndsWith(s, suffix) ==
    /\ Len(s) >= Len(suffix)
    /\ SubSeq(s, Len(s) - Len(suffix) + 1, Len(s)) = suffix

\* C8: every on_enter invocation says exactly one greeting, interruptible; it
\* is the greeting that mentions the context exactly when a non-empty context
\* was supplied, which is also exactly when the instructions carry the context
\* section; otherwise it is the generic greeting, a different text.
C8_OneGreetingByContext ==
    /\ Len(said) = entered
    /\ \A i \in 1..Len(said) :
          /\ said[i].allow_interruptions
          /\ SuppliedContext <=>
                said[i].text =
                    T("Hello! I'm your history guide. I have some context about ")
                        \o ContextText
                        \o T(". What would you like to explore about history today?")
          /\ ~SuppliedContext <=> said[i].text = GenericGreeting
          /\ SuppliedContext <=>
                EndsWith(agent.instructions, ContextSection \o ContextText)
          /\ ~SuppliedContext <=> agent.instructions = base_instructions

\* two greetings said in a session that was given the context "Rome"
C8_Witness ==
    /\ entered = 2
    /\ context = Text("Rome")
    /\ Len(said) = 2
    /\ said[2].text # GenericGreeting

\* the room metadata is a text that parses to an object with a context field
MetadataHasContext ==
    /\ metadata.t = "str"
    /\ JsonLoads(metadata.s).k = "return"
    /\ JsonLoads(metadata.s).v.t = "dict"
    /\ HasKey(JsonLoads(metadata.s).v.d, Text("context"))

\* C10: whatever the room metadata is, entrypoint goes on to construct the
\* agent and, the credentials being there, starts the session; the context it
\* passes is the metadata object's context field when there is one and absent
\* otherwise.
C10_MetadataNeverHaltsStartup ==
    epc.pc \in {"running", "raised"} /\ epc.error \notin ConnectErrors =>
        /\ epc.pc = "raised" => epc.error = ConfigError /\ AnyMissing
        /\ ~AnyMissing => epc.pc = "running"
        /\ MetadataHasContext =>
              context = ValueAt(JsonLoads(metadata.s).v.d, Text("context"))
        /\ ~MetadataHasContext => context = NoneV

\* the session running on metadata that is valid JSON but not an object
C10_Witness ==
    /\ epc.pc = "running"
    /\ metadata = Text("[1]")
    /\ context = NoneV
    /\ agent # NoneV

(***************************************************************************)
(* GeminiLLM.chat_completion and the two tools of HistoryAgent.  A call    *)
(* runs without suspension from its invocation to                          *)
(* `await asyncio.to_thread(self.chat.send_message, prompt)`; send_message *)
(* then runs on a worker thread while the event loop runs other calls.     *)
(***************************************************************************)
\* the reply dict of chat_completion
ChatResponse(content) ==
    [choices |-> <<[message |-> [content |-> content, role |-> T("assistant")]]>>]

ChatCompletionReraise(e) == Raise(e)

\* except Exception as e: return the apology that embeds str(e)
ChatCompletionExcept(e) ==
    Ok(ChatResponse(T("I apologize, but I encountered an error: ") \o e))

\* what chat_completion hands back, given what its try body came to: the
\* response text of the model, or an exception
ChatCompletionReturn(inner) ==
    IF inner.k = "raise" THEN ChatCompletionExcept(inner.e)
    ELSE Ok(ChatResponse(inner.v))

ChatMissingAlways(c) == TRUE

\* if not self.chat
ChatMissing(c) == ~Truthy(c)

\* the object start_chat returns
ChatSession(id) == [t |-> "ChatSession", id |-> id]

get_historical_info_prompt(place_or_event) ==
    T("\n"
      \o "        Provide comprehensive historical information about: ")
    \o PyFormat(place_or_event)
    \o T("\n"
      \o "        \n"
      \o "        Include:\n"
      \o "        - Key historical facts and timeline\n"
      \o "        - Important figures and events\n"
      \o "        - Cultural and architectural significance\n"
      \o "        - Interesting stories or legends\n"
      \o "        - Modern-day relevance or status\n"
      \o "        \n"
      \o "        Make it engaging and educational, suitable for someone curious about history.\n"
      \o "        ")

get_historical_info_apology(place_or_event) ==
    T("I encountered an issue researching ")
    \o PyFormat(place_or_event)
    \o T(". Let me share what I know from my training data instead.")

explore_time_period_prompt(time_period) ==
    T("\n"
      \o "        Provide an engaging overview of the historical period: ")
    \o PyFormat(time_period)
    \o T("\n"
      \o "        \n"
      \o "        Include:\n"
      \o "        - Major events and developments\n"
      \o "        - Daily life and society\n"
      \o "        - Important figures and leaders\n"
      \o "        - Cultural achievements and innovations\n"
      \o "        - Lasting impact on modern world\n"
      \o "        \n"
      \o "        Make it vivid and immersive, as if taking someone on a journey through time.\n"
      \o "        ")

explore_time_period_apology(time_period) ==
    T("I had trouble exploring that time period in detail. Let me share what I know about ")
    \o PyFormat(time_period)
    \o T(" from my knowledge.")

UserMessage(prompt) ==
    List(<<Dict(<<<<Text("role"), Text("user")>>, <<Text("content"), Str(prompt)>>>>)>>)

\* the messages an operation passes to chat_completion
MessagesOf(op, arg) ==
    CASE op = "_custom_llm" -> arg
      [] op = "get_historical_info" -> UserMessage(get_historical_info_prompt(arg))
      [] op = "explore_time_period" -> UserMessage(explore_time_period_prompt(arg))

\* what the operation hands back to the host, given what chat_completion
\* handed to it
OpReturn(op, arg, cc) ==
    CASE op = "_custom_llm" -> cc
      [] op = "get_historical_info" ->
            IF cc.k = "raise" THEN Ok(Str(get_historical_info_apology(arg)))
            ELSE Ok(Str(cc.v.choices[1].message.content))
      [] op = "explore_time_period" ->
            IF cc.k = "raise" THEN Ok(Str(explore_time_period_apology(arg)))
            ELSE Ok(Str(cc.v.choices[1].message.content))

TaskIds == 1..MaxTasks
IdleTask == [pc |-> "idle"]

LLMInputs ==
    { NoneV,
      Text(""),
      Text("hi"),
      List(<<Text("hi")>>),
      Dict(<<<<Text("role"), Text("user")>>>>),
      List(<<Dict(<<<<Text("role"), Text("user")>>, <<Text("content"), Text("hi")>>>>)>>),
      List(<<Dict(<<<<Text("role"), Text("system")>>, <<Text("content"), Text("Be brief.")>>>>),
             Dict(<<<<Text("content"), List(<<Text("hi")>>)>>, <<Text("role"), Text("user")>>>>)>>) }
ToolsValues == {NoneV, List(<<Text("get_historical_info")>>)}
Topics == {"Rome"}
Periods == {"Ancient Rome"}

StartChatErrors == {T("API key not valid")}
SendErrors == {T("429 quota exceeded")}
ResponseTexts == {T("Rome was founded in 753 BC.")}

DoneTask(op, arg, inner) ==
    [pc |-> "done", op |-> op, arg |-> arg, inner |-> inner,
     cc |-> ChatCompletionReturn(inner),
     outcome |-> OpReturn(op, arg, ChatCompletionReturn(inner))]

\* the call ends inside the event-loop step that began it
EndsAtOnce(t, op, arg, e) ==
    /\ tasks' = [tasks EXCEPT ![t] = DoneTask(op, arg, Raise(e))]
    /\ faults' = faults + 1
    /\ UNCHANGED <<chat, created, sendLog>>

\* the call suspends in send_message on the handle h
Suspends(t, op, arg, prompt, h) ==
    /\ tasks' = [tasks EXCEPT ![t] =
                    [pc |-> "sending", op |-> op, arg |-> arg, prompt |-> prompt]]
    /\ sendLog' = Append(sendLog, h.id)
    /\ UNCHANGED faults

\* chat_completion from its first line to the await of send_message
Begin(t, op, arg) ==
    /\ calls < MaxCalls
    /\ calls' = calls + 1
    /\ LET prompt == _convert_messages(MessagesOf(op, arg))
       IN IF prompt.k = "raise"
          THEN EndsAtOnce(t, op, arg, prompt.e)
          ELSE IF ChatMissing(chat)
               THEN \/ \E e \in StartChatErrors : EndsAtOnce(t, op, arg, e)
                    \/ /\ chat' = ChatSession(Len(created) + 1)
                       /\ created' = Append(created, calls + 1)
                       /\ Suspends(t, op, arg, prompt.v, chat')
               ELSE /\ Suspends(t, op, arg, prompt.v, chat)
                    /\ UNCHANGED <<chat, created>>
    /\ UNCHANGED <<cm, stt, tts, environ, metadata, epc, context, agent, adapters,
                   said, entered>>

\* the host calls the reasoning callback
InvokeLLM(t) ==
    /\ tasks[t].pc = "idle"
    /\ \E messages \in LLMInputs, tools \in ToolsValues :
          Begin(t, "_custom_llm", messages)

\* the host calls the tool get_historical_info
InvokeGetHistoricalInfo(t) ==
    /\ tasks[t].pc = "idle"
    /\ \E topic \in Topics : Begin(t, "get_historical_info", Text(topic))

\* the host calls the tool explore_time_period
InvokeExploreTimePeriod(t) ==
    /\ tasks[t].pc = "idle"
    /\ \E period \in Periods : Begin(t, "explore_time_period", Text(period))

\* send_message ends on its thread; chat_completion and the operation return
SendReturns(t) ==
    /\ tasks[t].pc = "sending"
    /\ \/ \E text \in ResponseTexts :
             /\ tasks' = [tasks EXCEPT ![t] = DoneTask(tasks[t].op, tasks[t].arg, Ok(text))]
             /\ UNCHANGED faults
       \/ \E e \in SendErrors :
             /\ tasks' = [tasks EXCEPT ![t] = DoneTask(tasks[t].op, tasks[t].arg, Raise(e))]
             /\ faults' = faults + 1
    /\ UNCHANGED <<cm, stt, tts, environ, metadata, epc, context, agent, adapters,
                   chat, created, calls, sendLog, said, entered>>

\* the host takes the result
Collect(t) ==
    /\ tasks[t].pc = "done"
    /\ tasks' = [tasks EXCEPT ![t] = IdleTask]
    /\ UNCHANGED <<cm, stt, tts, environ, metadata, epc, context, agent, adapters,
                   chat, created, calls, faults, sendLog, said, entered>>

FullEnviron == [c \in CredNames |-> Text("secret")]

\* a session whose agent has just been constructed
InitChat ==
    /\ cm = CmIdle
    /\ stt = SttIdle
    /\ tts = TtsIdle
    /\ environ = FullEnviron
    /\ metadata = NoneV
    /\ epc = EntryPc("running", <<>>)
    /\ context = NoneV
    /\ agent = HistoryAgentInit(NoneV, FullEnviron).v
    /\ adapters = {agent.gemini_llm, agent.gladia_stt, agent.minimax_tts}
    /\ chat = NoneV
    /\ created = <<>>
    /\ calls = 0
    /\ faults = 0
    /\ sendLog = <<>>
    /\ tasks = [t \in TaskIds |-> IdleTask]
    /\ said = <<>>
    /\ entered = 0

NextChat ==
    \E t \in TaskIds :
        \/ InvokeLLM(t)
        \/ InvokeGetHistoricalInfo(t)
        \/ InvokeExploreTimePeriod(t)
        \/ SendReturns(t)
        \/ Collect(t)

SpecChat == InitChat /\ [][NextChat]_vars

(***************************************************************************)
(* Properties of the conversation adapter and of the tools.                *)
(***************************************************************************)
Contains(s, sub) ==
    \E i \in 1..(Len(s) - Len(sub) + 1) : SubSeq(s, i, i + Len(sub) - 1) = sub

Done(t) == tasks[t].pc = "done"
IsTool(t) == tasks[t].op \in {"get_historical_info", "explore_time_period"}

\* C1: chat_completion never raises: whatever fails inside it (the prompt
\* conversion, start_chat or send_message), it returns a reply of role
\* assistant whose content contains the text of the error; when nothing fails
\* the reply has role assistant and the model's response text as content.
C1_ChatCompletionNeverRaises ==
    \A t \in TaskIds : Done(t) =>
        /\ tasks[t].cc.k = "return"
        /\ DOMAIN tasks[t].cc.v.choices = {1}
        /\ tasks[t].cc.v.choices[1].message.role = T("assistant")
        /\ tasks[t].inner.k = "raise" =>
              /\ tasks[t].inner.e # <<>>
              /\ Contains(tasks[t].cc.v.choices[1].message.content, tasks[t].inner.e)
        /\ tasks[t].inner.k = "return" =>
              tasks[t].cc.v.choices[1].message.content = tasks[t].inner.v

\* a reasoning call whose send_message failed after the handle was created
C1_Witness ==
    \E t \in TaskIds :
        /\ Done(t)
        /\ tasks[t].op = "_custom_llm"
        /\ tasks[t].inner = Raise(T("429 quota exceeded"))
        /\ chat # NoneV
        /\ tasks[t].outcome.k = "return"

\* C6: no handle exists before the first call; a handle, once created, is
\* never created again and every send_message goes through it; and while no
\* call has failed, it was the first call that created it and every call
\* begun has sent through it.
C6_HandleCreatedOnce ==
    /\ calls = 0 => chat = NoneV
    /\ chat = NoneV <=> created = <<>>
    /\ Len(created) <= 1
    /\ \A i \in 1..Len(sendLog) : chat # NoneV /\ sendLog[i] = chat.id
    /\ (faults = 0 /\ calls >= 1) =>
          /\ created = <<1>>
          /\ Len(sendLog) = calls

\* three calls, none failed, all sent through the handle of the first
C6_Witness ==
    /\ calls = 3
    /\ faults = 0
    /\ Len(sendLog) = 3
    /\ created = <<1>>
    /\ \E t \in TaskIds : Done(t) /\ IsTool(t)

\* C7: a tool returns the reply content of the conversation adapter when the
\* reasoning call succeeds, and its own apology naming the topic (the period)
\* when the reasoning call fails.
C7_ToolApologyNamesTopic ==
    \A t \in TaskIds : (Done(t) /\ IsTool(t)) =>
        /\ tasks[t].outcome.k = "return"
        /\ tasks[t].inner.k = "return" => tasks[t].outcome.v = Str(tasks[t].inner.v)
        /\ tasks[t].inner.k = "raise" =>
              /\ Contains(tasks[t].outcome.v.s, tasks[t].arg.s)
              /\ tasks[t].op = "get_historical_info" =>
                    tasks[t].outcome.v.s = T("I encountered an issue researching ")
                        \o tasks[t].arg.s
                        \o T(". Let me share what I know from my training data instead.")
              /\ tasks[t].op = "explore_time_period" =>
                    tasks[t].outcome.v.s =
                        T("I had trouble exploring that time period in detail. "
                          \o "Let me share what I know about ")
                        \o tasks[t].arg.s \o T(" from my knowledge.")

\* C9: at most one send_message on the chat handle is in flight at any time.
C9_OneSendInFlight ==
    Cardinality({t \in TaskIds : tasks[t].pc = "sending"}) <= 1

====
